---------------------------- MODULE Spec2Model ----------------------------
(***************************************************************************)
(* A model of the Red-Pill persistence gateway (src-tauri/src/main.rs):    *)
(* the five Tauri commands ping, read_csv, save_chart_state,               *)
(* save_sticky_notes and load_sticky_notes acting on a file tree.          *)
(*                                                                         *)
(* Strings are sequences of characters, a character being a one-character  *)
(* TLA+ string (two stand-ins: Nul for U+0000 and EAcute for the non-ASCII *)
(* letter U+00E9).  A path is a sequence of components from the file       *)
(* system's root, a component a string.  A file's content is a sequence of *)
(* units: the characters of a chart state, or the lexemes of a JSON text.  *)
(***************************************************************************)
EXTENDS Integers, Sequences, FiniteSets, TLC

VARIABLES
    dirs,       \* the directories that exist (a set of paths)
    files,      \* the files that exist: path -> content
    ret,        \* the last command and what it returned to the front-end
    eff,        \* what the last command did to the file tree
    chartHist,  \* history: the save_chart_state calls made so far
    notesHist,  \* history: the last save_sticky_notes call
    san,        \* the sanitizer applied to one input (specification SpecSan)
    calls,      \* the two overlapping save calls (specification SpecConc)
    order,      \* history of SpecConc: the order of opens, writes and returns
    nops        \* the number of commands run so far

vars == <<dirs, files, ret, eff, chartHist, notesHist, san, calls, order, nops>>

----------------------------------------------------------------------------
(* Characters and strings *)

Nul == "\\0"
EAcute == "U+00E9"

Letters ==
    {"a","b","c","d","e","f","g","h","i","j","k","l","m","n","o","p","q","r",
     "s","t","u","v","w","x","y","z","A","B","C","D","E","F","G","H","I","J",
     "K","L","M","N","O","P","Q","R","S","T","U","V","W","X","Y","Z", EAcute}

Digits == {"0","1","2","3","4","5","6","7","8","9"}

\* char::is_alphanumeric: Unicode letters and numbers
IsAlphanumeric(c) == c \in Letters \cup Digits

\* the closure of line 68: the characters that are replaced
Unsafe(c) == ~IsAlphanumeric(c) /\ c # "_" /\ c # "-"

\* str::replace with the closure of line 68 as its pattern: every matching
\* character of s becomes the string `to`, the stretches between are copied.
RECURSIVE Replace(_, _)
Replace(s, to) ==
    IF s = <<>> THEN <<>>
    ELSE (IF Unsafe(Head(s)) THEN to ELSE <<Head(s)>>) \o Replace(Tail(s), to)

\* A plausible slip: the match is deleted instead of replaced.
SanitizeDeleting(source_id) == Replace(source_id, <<>>)

\* A plausible slip: only the first match is replaced (str::replacen(.., 1)).
SanitizeFirstOnly(source_id) ==
    LET hits == {i \in 1..Len(source_id) : Unsafe(source_id[i])}
    IN  [i \in 1..Len(source_id) |->
            IF i \in hits /\ \A j \in hits : i <= j THEN "_" ELSE source_id[i]]

\* A plausible slip: '.' is taken for a safe character.
SanitizeKeepingDots(source_id) ==
    [i \in 1..Len(source_id) |->
        IF Unsafe(source_id[i]) /\ source_id[i] # "." THEN "_" ELSE source_id[i]]

\* A plausible slip: nothing is sanitized.
SanitizeNothing(source_id) == source_id

\* line 68: let safe_id = source_id.replace(|c| ..., "_")
Sanitize(source_id) == Replace(source_id, <<"_">>)

----------------------------------------------------------------------------
(* Paths and the file tree *)

AppDataName == <<"a","p","p">>
RedPillCharting == <<"R","e","d","P","i","l","l","C","h","a","r","t","i","n","g">>
Database == <<"D","a","t","a","b","a","s","e">>
Drawings == <<"D","r","a","w","i","n","g","s">>
StickyNotes == <<"S","t","i","c","k","y","N","o","t","e","s">>
StickyNotesJson ==
    <<"s","t","i","c","k","y","_","n","o","t","e","s",".","j","s","o","n">>
DotJson == <<".","j","s","o","n">>
Dot == <<".">>
DotDot == <<".",".">>

\* app.path().app_data_dir(): the per-user directory the host hands out
AppDataDir == <<AppDataName>>

\* std::path::is_separator: '/' everywhere, '\' as well on Windows
Separators == {"/", "\\"}

Parent(path) == IF path = <<>> THEN <<>> ELSE SubSeq(path, 1, Len(path) - 1)

Prefixes(path) == {SubSeq(path, 1, n) : n \in 0..Len(path)}

\* Path::components of a string: the stretches between separators
RECURSIVE SplitFrom(_, _)
SplitFrom(s, cur) ==
    IF s = <<>> THEN (IF cur = <<>> THEN <<>> ELSE <<cur>>)
    ELSE IF Head(s) \in Separators
         THEN (IF cur = <<>> THEN <<>> ELSE <<cur>>) \o SplitFrom(Tail(s), <<>>)
         ELSE SplitFrom(Tail(s), Append(cur, Head(s)))

Components(s) == SplitFrom(s, <<>>)

\* PathBuf::join: an absolute argument replaces the base
Join(base, s) ==
    IF s # <<>> /\ Head(s) \in Separators THEN Components(s)
    ELSE base \o Components(s)

\* The operating system's walk of a path: "." stays, ".." steps up from a
\* directory that exists.
RECURSIVE ResolveFrom(_, _, _)
ResolveFrom(ds, cur, rest) ==
    IF rest = <<>> THEN [ok |-> TRUE, path |-> cur]
    ELSE IF Head(rest) = Dot THEN ResolveFrom(ds, cur, Tail(rest))
    ELSE IF Head(rest) = DotDot
         THEN IF cur \in ds THEN ResolveFrom(ds, Parent(cur), Tail(rest))
              ELSE [ok |-> FALSE, path |-> cur]
    ELSE ResolveFrom(ds, Append(cur, Head(rest)), Tail(rest))

Resolve(ds, path) == ResolveFrom(ds, <<>>, path)

\* Path::exists
ExistsAt(ds, fl, r) == r.ok /\ (r.path \in ds \/ r.path \in DOMAIN fl)

Exists(ds, fl, path) == ExistsAt(ds, fl, Resolve(ds, path))

\* What the environment does to one call: nothing, or one failure.
\*   resolve: the host supplies no application-data directory
\*   mkdir:   create_dir_all fails after creating k of the missing directories
\*   open:    the file cannot be opened (nothing is touched)
\*   short:   the file is opened and truncated, k units are written, then the
\*            write fails
\*   read:    the file cannot be read
MaxPartial == 1

NoFault == [kind |-> "none", k |-> 0]
Faults ==
    {NoFault, [kind |-> "resolve", k |-> 0], [kind |-> "open", k |-> 0],
     [kind |-> "read", k |-> 0]}
    \cup [kind : {"mkdir", "short"}, k : 0..MaxPartial]

\* lines 38-42: get_db_path
get_db_path(fault) ==
    IF fault.kind = "resolve"
    THEN [ok |-> FALSE, path |-> <<>>]
    ELSE [ok |-> TRUE, path |-> AppDataDir \o <<RedPillCharting, Database>>]

\* fs::create_dir_all: creates the missing ancestors, outermost first
CreateDirAll(ds, fl, path, fault) ==
    LET missing == {q \in Prefixes(path) : q \notin ds}
        blocked == \E q \in Prefixes(path) : q \in DOMAIN fl
        made(n) == {q \in missing :
                      Cardinality({m \in missing : Len(m) < Len(q)}) < n}
    IN  IF blocked THEN [ok |-> FALSE, dirs |-> ds, created |-> {}]
        ELSE IF fault.kind = "mkdir" /\ fault.k < Cardinality(missing)
        THEN [ok |-> FALSE, dirs |-> ds \cup made(fault.k),
              created |-> made(fault.k)]
        ELSE [ok |-> TRUE, dirs |-> ds \cup missing, created |-> missing]

Put(fl, path, data) ==
    [q \in DOMAIN fl \cup {path} |-> IF q = path THEN data ELSE fl[q]]

\* whether the file at the resolved path r can be opened for writing
CanOpen(ds, r, fault) ==
    r.ok /\ r.path \notin ds /\ Parent(r.path) \in ds /\ fault.kind # "open"

Old(fl, path) == IF path \in DOMAIN fl THEN fl[path] ELSE <<>>

\* A plausible slip: the file is opened for appending.
FsWriteAppendingAt(ds, fl, r, data, fault) ==
    IF ~CanOpen(ds, r, fault)
    THEN [ok |-> FALSE, files |-> fl, written |-> {}]
    ELSE [ok |-> TRUE, files |-> Put(fl, r.path, Old(fl, r.path) \o data),
          written |-> {r.path}]

FsWriteAppending(ds, fl, path, data, fault) ==
    FsWriteAppendingAt(ds, fl, Resolve(ds, path), data, fault)

RECURSIVE Nuls(_)
Nuls(n) == IF n <= 0 THEN <<>> ELSE <<Nul>> \o Nuls(n - 1)

\* the content after `chunk` is written at offset off: what lies beyond the
\* chunk stays, a gap before it reads as zeros
Overlay(old, off, chunk) ==
    SubSeq(old, 1, IF off < Len(old) THEN off ELSE Len(old))
        \o Nuls(off - Len(old)) \o chunk
        \o SubSeq(old, off + Len(chunk) + 1, Len(old))

\* A plausible slip: the file is opened without O_TRUNC.
CreateKeeping(fl, path) == Put(fl, path, Old(fl, path))

\* File::create: the file is created, or truncated if it is there
Create(fl, path) == Put(fl, path, <<>>)

\* one write(2) of `chunk` at the offset off of an open file
WriteAt(fl, path, off, chunk) == Put(fl, path, Overlay(Old(fl, path), off, chunk))

FsWriteAt(ds, fl, r, data, fault) ==
    IF ~CanOpen(ds, r, fault)
    THEN [ok |-> FALSE, files |-> fl, written |-> {}]
    ELSE IF fault.kind = "short" /\ fault.k < Len(data)
    THEN [ok |-> FALSE,
          files |-> WriteAt(Create(fl, r.path), r.path, 0, SubSeq(data, 1, fault.k)),
          written |-> {r.path}]
    ELSE [ok |-> TRUE, files |-> WriteAt(Create(fl, r.path), r.path, 0, data),
          written |-> {r.path}]

\* fs::write: File::create (create or truncate) and then write_all
FsWrite(ds, fl, path, data, fault) ==
    FsWriteAt(ds, fl, Resolve(ds, path), data, fault)

FsReadAt(fl, r, fault) ==
    IF ~r.ok \/ r.path \notin DOMAIN fl \/ fault.kind = "read"
    THEN [ok |-> FALSE, data |-> <<>>]
    ELSE [ok |-> TRUE, data |-> fl[r.path]]

\* fs::read_to_string
FsRead(ds, fl, path, fault) == FsReadAt(fl, Resolve(ds, path), fault)

----------------------------------------------------------------------------
(* Sticky notes and their JSON text (serde_json, the derives of lines 10-33). *)
(* A JSON text is the sequence of its lexemes; a string lexeme is the string  *)
(* between quotes (the sample strings hold no character that needs an         *)
(* escape).                                                                   *)

\* An Option<T>: None is <<>>, Some(v) is <<v>>.
None == <<>>
Some(v) == <<v>>

\* The wire names of a StickyNote's fields (the serde renames of lines 21-30)
\* and of Position's and Size's.
WireNames ==
    {"id", "title", "content", "inkData", "mode", "isMinimized", "isPinned",
     "position", "size", "zIndex", "color", "x", "y", "w", "h"}

\* The values the sample notes use: strings, i64 values, and f64 values
\* (whole ones, written by serde_json with a trailing ".0").
StrSample == WireNames \cup {"", "n1", "n2", "T", "null", "ink", "text", "{[", "red"}
I64Sample == {-1, 0, 7}
F64Sample == {-5, 0, 12, 300}

Quote(s) == "\"" \o s \o "\""
FmtI64(n) == ToString(n)
FmtF64(n) == ToString(n) \o ".0"

StrLexemes == {Quote(s) : s \in StrSample}
Literals ==
    {"null", "true", "false"}
        \cup {FmtI64(n) : n \in I64Sample \cup F64Sample}
        \cup {FmtF64(n) : n \in F64Sample}

WriteBool(b) == IF b THEN "true" ELSE "false"
WriteOptString(o) == IF o = None THEN "null" ELSE Quote(o[1])
WriteOptBool(o) == IF o = None THEN "null" ELSE WriteBool(o[1])

\* Position and Size: a struct of two f64 fields
WritePair(k1, v1, k2, v2) ==
    <<"{", Quote(k1), ":", FmtF64(v1), ",", Quote(k2), ":", FmtF64(v2), "}">>

\* A plausible slip: a rename is forgotten and the field is written under
\* its Rust name.
WriteNoteUnrenamed(n) ==
    <<"{", Quote("id"), ":", Quote(n.id), ",",
           Quote("title"), ":", Quote(n.title), ",",
           Quote("content"), ":", Quote(n.content), ",",
           Quote("ink_data"), ":", WriteOptString(n.ink_data), ",",
           Quote("mode"), ":", Quote(n.mode), ",",
           Quote("isMinimized"), ":", WriteBool(n.is_minimized), ",",
           Quote("isPinned"), ":", WriteOptBool(n.is_pinned), ",",
           Quote("position"), ":">>
        \o WritePair("x", n.position.x, "y", n.position.y)
        \o <<",", Quote("size"), ":">>
        \o WritePair("w", n.size.w, "h", n.size.h)
        \o <<",", Quote("zIndex"), ":", FmtI64(n.z_index), ",",
             Quote("color"), ":", Quote(n.color), "}">>

\* lines 16-33: Serialize for StickyNote
WriteNote(n) ==
    <<"{", Quote("id"), ":", Quote(n.id), ",",
           Quote("title"), ":", Quote(n.title), ",",
           Quote("content"), ":", Quote(n.content), ",",
           Quote("inkData"), ":", WriteOptString(n.ink_data), ",",
           Quote("mode"), ":", Quote(n.mode), ",",
           Quote("isMinimized"), ":", WriteBool(n.is_minimized), ",",
           Quote("isPinned"), ":", WriteOptBool(n.is_pinned), ",",
           Quote("position"), ":">>
        \o WritePair("x", n.position.x, "y", n.position.y)
        \o <<",", Quote("size"), ":">>
        \o WritePair("w", n.size.w, "h", n.size.h)
        \o <<",", Quote("zIndex"), ":", FmtI64(n.z_index), ",",
             Quote("color"), ":", Quote(n.color), "}">>

RECURSIVE WriteElems(_)
WriteElems(notes) ==
    IF notes = <<>> THEN <<>>
    ELSE WriteNote(Head(notes))
             \o (IF Tail(notes) = <<>> THEN <<>> ELSE <<",">>)
             \o WriteElems(Tail(notes))

\* line 84: serde_json::to_string_pretty(&notes); the layout's white space,
\* which the reader skips, is left out.
to_string_pretty(notes) == <<"[">> \o WriteElems(notes) \o <<"]">>

\* What a reader returns: the value read and the place after it.
Fail == [ok |-> FALSE, v |-> <<>>, next |-> 0]
Got(v, next) == [ok |-> TRUE, v |-> v, next |-> next]

\* what each string and number lexeme stands for
Unquoted == [l \in StrLexemes |-> CHOOSE s \in StrSample : Quote(s) = l]
I64Lexemes == {FmtI64(n) : n \in I64Sample}
I64Of == [l \in I64Lexemes |-> CHOOSE n \in I64Sample : FmtI64(n) = l]
F64Lexemes == {FmtF64(n) : n \in F64Sample} \cup {FmtI64(n) : n \in F64Sample}
F64Of ==
    [l \in F64Lexemes |-> CHOOSE n \in F64Sample : l \in {FmtF64(n), FmtI64(n)}]
Scalars == StrLexemes \cup Literals

ReadString(ts, i) ==
    IF i <= Len(ts) /\ ts[i] \in StrLexemes THEN Got(Unquoted[ts[i]], i + 1)
    ELSE Fail

ReadBool(ts, i) ==
    IF i > Len(ts) THEN Fail
    ELSE IF ts[i] = "true" THEN Got(TRUE, i + 1)
    ELSE IF ts[i] = "false" THEN Got(FALSE, i + 1)
    ELSE Fail

ReadI64(ts, i) ==
    IF i <= Len(ts) /\ ts[i] \in I64Lexemes THEN Got(I64Of[ts[i]], i + 1)
    ELSE Fail

\* an f64 is read from a number with or without a fraction
ReadF64(ts, i) ==
    IF i <= Len(ts) /\ ts[i] \in F64Lexemes THEN Got(F64Of[ts[i]], i + 1)
    ELSE Fail

\* The place after the JSON value at i, whatever it is (0: malformed): the
\* way a struct's unknown members are passed over.  depth counts the
\* brackets that are open.
RECURSIVE SkipFrom(_, _, _)
SkipFrom(ts, i, depth) ==
    IF i > Len(ts) THEN 0
    ELSE IF ts[i] \in {"{", "["} THEN SkipFrom(ts, i + 1, depth + 1)
    ELSE IF ts[i] \in {"}", "]"}
         THEN IF depth = 0 THEN 0
              ELSE IF depth = 1 THEN i + 1
              ELSE SkipFrom(ts, i + 1, depth - 1)
    ELSE IF depth = 0
         THEN IF ts[i] \in Scalars THEN i + 1 ELSE 0
    ELSE SkipFrom(ts, i + 1, depth)

SkipValue(ts, i) == SkipFrom(ts, i, 0)

\* The members of the object whose first member starts at i: each one's key
\* and the places where its value starts and ends.  (The readers hand what
\* they have read to the operator that goes on from there.)
RECURSIVE MembersFrom(_, _, _, _)
MembersAfterValue(ts, acc, k, n) ==
    IF n = 0 \/ n > Len(ts) THEN Fail
    ELSE IF ts[n] = "}"
         THEN Got(Append(acc, [key |-> k.v, at |-> k.next + 1, end |-> n]), n + 1)
    ELSE IF ts[n] = ","
         THEN MembersFrom(ts, n + 1,
                          Append(acc, [key |-> k.v, at |-> k.next + 1, end |-> n]),
                          FALSE)
    ELSE Fail

MembersAfterKey(ts, acc, k) ==
    IF ~k.ok \/ k.next > Len(ts) THEN Fail
    ELSE IF ts[k.next] # ":" THEN Fail
    ELSE MembersAfterValue(ts, acc, k, SkipValue(ts, k.next + 1))

MembersFrom(ts, i, acc, first) ==
    IF i > Len(ts) THEN Fail
    ELSE IF first /\ ts[i] = "}" THEN Got(acc, i + 1)
    ELSE MembersAfterKey(ts, acc, ReadString(ts, i))

Members(ts, i) ==
    IF i > Len(ts) \/ ts[i] # "{" THEN Fail ELSE MembersFrom(ts, i + 1, <<>>, TRUE)

OptionTypes == {"Option<String>", "Option<bool>"}

AsSome(r) == IF r.ok THEN Got(Some(r.v), r.next) ELSE Fail

\* a value of a type that is not a struct
ReadScalar(ts, i, ty) ==
    IF i > Len(ts) THEN Fail
    ELSE IF ty = "String" THEN ReadString(ts, i)
    ELSE IF ty = "bool" THEN ReadBool(ts, i)
    ELSE IF ty = "i64" THEN ReadI64(ts, i)
    ELSE IF ty = "f64" THEN ReadF64(ts, i)
    ELSE IF ts[i] = "null" THEN Got(None, i + 1)
    ELSE IF ty = "Option<String>" THEN AsSome(ReadString(ts, i))
    ELSE AsSome(ReadBool(ts, i))

\* The member of ms with the key `key`: a field given twice is an error, a
\* field not given is an error unless it is an Option, which is then None.
FieldAt(ms, key, ty) ==
    LET hits == {j \in 1..Len(ms) : ms[j].key = key}
    IN  IF Cardinality(hits) > 1 THEN [ok |-> FALSE, at |-> 0, end |-> 0]
        ELSE IF hits = {} THEN [ok |-> ty \in OptionTypes, at |-> 0, end |-> 0]
        ELSE [ok |-> TRUE, at |-> ms[CHOOSE j \in hits : TRUE].at,
              end |-> ms[CHOOSE j \in hits : TRUE].end]

\* a value must end where its member ends
UpTo(r, end) == IF r.ok /\ r.next = end THEN r ELSE Fail

ReadFieldAt(ts, f, ty) ==
    IF ~f.ok THEN Fail
    ELSE IF f.at = 0 THEN Got(None, 0)
    ELSE UpTo(ReadScalar(ts, f.at, ty), f.end)

ReadField(ts, ms, key, ty) == ReadFieldAt(ts, FieldAt(ms, key, ty), ty)

\* lines 10-14: Deserialize for Position (x, y) and Size (w, h)
PairOf(a, b, next) == IF a.ok /\ b.ok THEN Got(<<a.v, b.v>>, next) ELSE Fail

ReadPairIn(ts, ms, k1, k2) ==
    IF ~ms.ok THEN Fail
    ELSE PairOf(ReadField(ts, ms.v, k1, "f64"), ReadField(ts, ms.v, k2, "f64"),
                ms.next)

ReadPair(ts, i, k1, k2) == ReadPairIn(ts, Members(ts, i), k1, k2)

ReadPairAt(ts, f, k1, k2) ==
    IF ~f.ok THEN Fail ELSE UpTo(ReadPair(ts, f.at, k1, k2), f.end)

ReadPairField(ts, ms, key, k1, k2) ==
    ReadPairAt(ts, FieldAt(ms, key, "struct"), k1, k2)

NoteOf(f, p, s, next) ==
    IF (\E k \in DOMAIN f : ~f[k].ok) \/ ~p.ok \/ ~s.ok THEN Fail
    ELSE Got([id |-> f.id.v, title |-> f.title.v, content |-> f.content.v,
              ink_data |-> f.inkData.v, mode |-> f.mode.v,
              is_minimized |-> f.isMinimized.v, is_pinned |-> f.isPinned.v,
              position |-> [x |-> p.v[1], y |-> p.v[2]],
              size |-> [w |-> s.v[1], h |-> s.v[2]],
              z_index |-> f.zIndex.v, color |-> f.color.v], next)

ReadNoteIn(ts, ms) ==
    IF ~ms.ok THEN Fail
    ELSE NoteOf([id |-> ReadField(ts, ms.v, "id", "String"),
                 title |-> ReadField(ts, ms.v, "title", "String"),
                 content |-> ReadField(ts, ms.v, "content", "String"),
                 inkData |-> ReadField(ts, ms.v, "inkData", "Option<String>"),
                 mode |-> ReadField(ts, ms.v, "mode", "String"),
                 isMinimized |-> ReadField(ts, ms.v, "isMinimized", "bool"),
                 isPinned |-> ReadField(ts, ms.v, "isPinned", "Option<bool>"),
                 zIndex |-> ReadField(ts, ms.v, "zIndex", "i64"),
                 color |-> ReadField(ts, ms.v, "color", "String")],
                ReadPairField(ts, ms.v, "position", "x", "y"),
                ReadPairField(ts, ms.v, "size", "w", "h"),
                ms.next)

\* lines 16-33: Deserialize for StickyNote
ReadNote(ts, i) == ReadNoteIn(ts, Members(ts, i))

RECURSIVE ReadElems(_, _, _, _)
ReadElemsAfter(ts, acc, r) ==
    IF ~r.ok \/ r.next > Len(ts) THEN Fail
    ELSE IF ts[r.next] = "]" THEN Got(Append(acc, r.v), r.next + 1)
    ELSE IF ts[r.next] = "," THEN ReadElems(ts, r.next + 1, Append(acc, r.v), FALSE)
    ELSE Fail

ReadElems(ts, i, acc, first) ==
    IF i > Len(ts) THEN Fail
    ELSE IF first /\ ts[i] = "]" THEN Got(acc, i + 1)
    ELSE ReadElemsAfter(ts, acc, ReadNote(ts, i))

\* line 98: serde_json::from_str::<Vec<StickyNote>>(&content); characters
\* after the closing bracket are an error
from_str(content) ==
    IF content = <<>> \/ content[1] # "[" THEN Fail
    ELSE UpTo(ReadElems(content, 2, <<>>, TRUE), Len(content) + 1)

----------------------------------------------------------------------------
(* The inputs the commands are called with *)

Id_evil == <<".",".","/",".",".","/","e","v","i","l">>
Id_evil_b == <<".",".","\\",".",".","\\","e","v","i","l">>
Id_sticky ==
    <<".",".","/">> \o StickyNotes \o <<"/">>
        \o <<"s","t","i","c","k","y","_","n","o","t","e","s">>
Id_etc ==
    <<".",".","/",".",".","/","e","t","c","/","p","a","s","s","w","d">>

SourceIds == {Id_evil, Id_evil_b, Id_sticky}

ChartStates == {<<"{","}">>, <<"0">>}

Note1 ==
    [id |-> "n1", title |-> "T", content |-> "null",
     ink_data |-> Some("{["), mode |-> "ink",
     is_minimized |-> FALSE, is_pinned |-> Some(TRUE),
     position |-> [x |-> 12, y |-> -5], size |-> [w |-> 300, h |-> 0],
     z_index |-> 7, color |-> "red"]

Note2 ==
    [id |-> "n2", title |-> "", content |-> "text",
     ink_data |-> None, mode |-> "text",
     is_minimized |-> TRUE, is_pinned |-> None,
     position |-> [x |-> 0, y |-> 0], size |-> [w |-> 12, h |-> 12],
     z_index |-> -1, color |-> ""]

NoteSeqs == {<<>>, <<Note1>>, <<Note1, Note2>>, <<Note2, Note1>>}

CsvFile == << <<"d">> >>
CsvText == <<"a",",","b">>

RECURSIVE PathString(_)
PathString(path) ==
    IF path = <<>> THEN <<>> ELSE <<"/">> \o Head(path) \o PathString(Tail(path))

DrawingsDir == AppDataDir \o <<RedPillCharting, Database, Drawings>>
StickyDir == AppDataDir \o <<RedPillCharting, Database, StickyNotes>>
StickyFile == Append(StickyDir, StickyNotesJson)

CsvPaths == {<<"/","d">>, <<"n">>, PathString(StickyFile)}

----------------------------------------------------------------------------
(* The commands.  Each returns what the front-end gets (ok, val), the file  *)
(* tree it leaves (dirs, files) and what it did: the directories it         *)
(* created, the files it opened for writing, the number of fs::write calls. *)

Out(ok, val, ds, fl, created, written, writes) ==
    [ok |-> ok, val |-> val, dirs |-> ds, files |-> fl, created |-> created,
     written |-> written, writes |-> writes]

\* lines 46-49
ping == "pong"

CsvResult(ds, fl, r) ==
    IF r.ok THEN Out(TRUE, r.data, ds, fl, {}, {}, 0)
    ELSE Out(FALSE, "read error", ds, fl, {}, {}, 0)

\* lines 51-56 (the diagnostic line printed first is not part of the state;
\* a relative path is taken from the root)
read_csv(ds, fl, file_path, fault) ==
    CsvResult(ds, fl, FsRead(ds, fl, Join(<<>>, file_path), fault))

\* lines 63-65 and 79-81: if !root.exists() { fs::create_dir_all(&root)? }
EnsureDir(ds, fl, root, fault) ==
    IF Exists(ds, fl, root) THEN [ok |-> TRUE, dirs |-> ds, created |-> {}]
    ELSE CreateDirAll(ds, fl, root, fault)

PathError(ds, fl) == Out(FALSE, "path error", ds, fl, {}, {}, 0)

\* lines 71 and 86: what fs::write returned is what the command returns
Written(mk, w, writes) ==
    Out(w.ok, IF w.ok THEN <<>> ELSE "write error", mk.dirs, w.files,
        mk.created, w.written, writes)

\* A plausible slip: a failed write is tried a second time.
RetryWritten(fl, mk, path, data, fault, w) ==
    IF w.ok THEN Written(mk, w, 1)
    ELSE Written(mk, FsWrite(mk.dirs, w.files, path, data, fault), 2)

WriteIntoRetrying(fl, mk, path, data, fault) ==
    IF ~mk.ok
    THEN Out(FALSE, "create_dir_all error", mk.dirs, fl, mk.created, {}, 0)
    ELSE RetryWritten(fl, mk, path, data, fault,
                      FsWrite(mk.dirs, fl, path, data, fault))

\* A plausible slip: a directory the call created is removed when the write
\* fails.
RollbackWritten(mk, w) ==
    IF w.ok THEN Written(mk, w, 1)
    ELSE Out(FALSE, "write error", mk.dirs \ mk.created, w.files, {},
             w.written, 1)

WriteIntoRollingBack(fl, mk, path, data, fault) ==
    IF ~mk.ok
    THEN Out(FALSE, "create_dir_all error", mk.dirs, fl, mk.created, {}, 0)
    ELSE RollbackWritten(mk, FsWrite(mk.dirs, fl, path, data, fault))

\* lines 63-71 and 79-86: after the directory is there (mk: what EnsureDir
\* returned), the one write
WriteInto(fl, mk, path, data, fault) ==
    IF ~mk.ok
    THEN Out(FALSE, "create_dir_all error", mk.dirs, fl, mk.created, {}, 0)
    ELSE Written(mk, FsWrite(mk.dirs, fl, path, data, fault), 1)

SaveChartUnder(ds, fl, root, source_id, state, fault) ==
    WriteInto(fl, EnsureDir(ds, fl, root, fault),
              Join(root, Sanitize(source_id) \o DotJson), state, fault)

\* lines 58-72
save_chart_state(ds, fl, source_id, state, fault) ==
    IF ~get_db_path(fault).ok THEN PathError(ds, fl)
    ELSE SaveChartUnder(ds, fl, Append(get_db_path(fault).path, Drawings),
                        source_id, state, fault)

\* A plausible slip: the notes are saved next to the chart states.
SaveNotesAmongCharts(ds, fl, root, notes, fault) ==
    WriteInto(fl, EnsureDir(ds, fl, Append(Parent(root), Drawings), fault),
              Join(Append(Parent(root), Drawings), StickyNotesJson),
              to_string_pretty(notes), fault)

SaveNotesUnder(ds, fl, root, notes, fault) ==
    WriteInto(fl, EnsureDir(ds, fl, root, fault), Join(root, StickyNotesJson),
              to_string_pretty(notes), fault)

\* lines 74-87 (to_string_pretty cannot fail on a StickyNote)
save_sticky_notes(ds, fl, notes, fault) ==
    IF ~get_db_path(fault).ok THEN PathError(ds, fl)
    ELSE SaveNotesUnder(ds, fl, Append(get_db_path(fault).path, StickyNotes),
                        notes, fault)

Parsed(ds, fl, notes) ==
    IF ~notes.ok THEN Out(FALSE, "json error", ds, fl, {}, {}, 0)
    ELSE Out(TRUE, notes.v, ds, fl, {}, {}, 0)

Loaded(ds, fl, content) ==
    IF ~content.ok THEN Out(FALSE, "read error", ds, fl, {}, {}, 0)
    ELSE Parsed(ds, fl, from_str(content.data))

\* A plausible slip: the file is read without asking whether it exists.
LoadFromUnguarded(ds, fl, path, fault) ==
    Loaded(ds, fl, FsRead(ds, fl, path, fault))

\* lines 93-99
LoadFrom(ds, fl, path, fault) ==
    IF ~Exists(ds, fl, path) THEN Out(TRUE, <<>>, ds, fl, {}, {}, 0)
    ELSE Loaded(ds, fl, FsRead(ds, fl, path, fault))

\* lines 89-100
load_sticky_notes(ds, fl, fault) ==
    IF ~get_db_path(fault).ok THEN PathError(ds, fl)
    ELSE LoadFrom(ds, fl,
                  get_db_path(fault).path \o <<StickyNotes, StickyNotesJson>>,
                  fault)

----------------------------------------------------------------------------
(* Specification Spec: the commands, one after the other *)

\* the number of commands a run of Spec makes
MaxOps == 3

Eff(o, fault) ==
    [created |-> o.created, written |-> o.written, writes |-> o.writes,
     fault |-> fault.kind]
NoEff == [created |-> {}, written |-> {}, writes |-> 0, fault |-> "none"]

Ret(cmd, o) == [cmd |-> cmd, ok |-> o.ok, val |-> o.val]

NoSan == [in |-> <<>>, once |-> <<>>, twice |-> <<>>, n |-> 0]

\* the successful saves so far, the latest last, one entry per source_id
Logged(log, source_id, state) ==
    SelectSeq(log, LAMBDA e : e[1] # source_id) \o << <<source_id, state>> >>

Init ==
    /\ dirs = {<<>>}
    /\ files = (CsvFile :> CsvText)
    /\ ret = [cmd |-> "none", ok |-> TRUE, val |-> <<>>]
    /\ eff = NoEff
    /\ chartHist = [clean |-> TRUE, log |-> <<>>]
    /\ notesHist = [state |-> "none", notes |-> <<>>]
    /\ san = NoSan
    /\ calls = <<>>
    /\ order = <<>>
    /\ nops = 0

\* a command ran: what it returned, what it did, the file tree it leaves
Step(cmd, o, fault) ==
    /\ nops < MaxOps
    /\ nops' = nops + 1
    /\ ret' = Ret(cmd, o)
    /\ eff' = Eff(o, fault)
    /\ dirs' = o.dirs
    /\ files' = o.files

Ping ==
    /\ nops < MaxOps
    /\ nops' = nops + 1
    /\ ret' = [cmd |-> "ping", ok |-> TRUE, val |-> ping]
    /\ eff' = NoEff
    /\ UNCHANGED <<dirs, files, chartHist, notesHist, san, calls, order>>

ReadFaults == {f \in Faults : f.kind \in {"none", "read"}}
SaveFaults == {f \in Faults : f.kind \notin {"read"}}
LoadFaults == {f \in Faults : f.kind \in {"none", "resolve", "read"}}

ReadCsv ==
    \E file_path \in CsvPaths, fault \in ReadFaults :
        /\ Step("read_csv", read_csv(dirs, files, file_path, fault), fault)
        /\ UNCHANGED <<chartHist, notesHist, san, calls, order>>

SaveChartState ==
    \E source_id \in SourceIds, state \in ChartStates, fault \in SaveFaults :
        /\ Step("save_chart_state",
                save_chart_state(dirs, files, source_id, state, fault), fault)
        /\ chartHist' =
               IF ret'.ok /\ chartHist.clean
               THEN [clean |-> TRUE,
                     log |-> Logged(chartHist.log, source_id, state)]
               ELSE [clean |-> FALSE, log |-> <<>>]
        /\ UNCHANGED <<notesHist, san, calls, order>>

SaveStickyNotes ==
    \E notes \in NoteSeqs, fault \in SaveFaults :
        /\ Step("save_sticky_notes",
                save_sticky_notes(dirs, files, notes, fault), fault)
        /\ notesHist' =
               IF ret'.ok THEN [state |-> "saved", notes |-> notes]
               ELSE [state |-> "failed", notes |-> <<>>]
        /\ UNCHANGED <<chartHist, san, calls, order>>

LoadStickyNotes ==
    \E fault \in LoadFaults :
        /\ Step("load_sticky_notes", load_sticky_notes(dirs, files, fault), fault)
        /\ UNCHANGED <<chartHist, notesHist, san, calls, order>>

Next == Ping \/ ReadCsv \/ SaveChartState \/ SaveStickyNotes \/ LoadStickyNotes

Spec == Init /\ [][Next]_vars

----------------------------------------------------------------------------
(* Specification SpecSan: the sanitizer of line 68 applied to one input,    *)
(* and then to its own output                                               *)

\* the longest input tried, beside the samples
MaxLen == 2

SanAlphabet == {"a", "Z", "7", EAcute, "_", "-", "/", "\\", ".", Nul, " "}

SanInputs ==
    UNION {[1..n -> SanAlphabet] : n \in 0..MaxLen}
        \cup SourceIds \cup {Id_etc}

InitSan ==
    /\ dirs = {<<>>}
    /\ files = (CsvFile :> CsvText)
    /\ ret = [cmd |-> "none", ok |-> TRUE, val |-> <<>>]
    /\ eff = NoEff
    /\ chartHist = [clean |-> TRUE, log |-> <<>>]
    /\ notesHist = [state |-> "none", notes |-> <<>>]
    /\ san \in {[in |-> s, once |-> <<>>, twice |-> <<>>, n |-> 0] : s \in SanInputs}
    /\ calls = <<>>
    /\ order = <<>>
    /\ nops = 0

SanitizeOnce ==
    /\ san.n = 0
    /\ san' = [san EXCEPT !.once = Sanitize(san.in), !.n = 1]
    /\ UNCHANGED <<dirs, files, ret, eff, chartHist, notesHist, calls, order, nops>>

SanitizeAgain ==
    /\ san.n = 1
    /\ san' = [san EXCEPT !.twice = Sanitize(san.once), !.n = 2]
    /\ UNCHANGED <<dirs, files, ret, eff, chartHist, notesHist, calls, order, nops>>

NextSan == SanitizeOnce \/ SanitizeAgain

SpecSan == InitSan /\ [][NextSan]_vars

----------------------------------------------------------------------------
(* Specification SpecConc: two save calls on the same target path, their    *)
(* file-system calls interleaved.  No lock is taken (lines 59-87), so every *)
(* interleaving of the calls' steps is a run.  The environment fails        *)
(* nothing here, but a write(2) may write less than it was given, and       *)
(* write_all then writes the rest.                                          *)

\* the most a write(2) writes when it does not write all it was given
MaxShortWrite == 1

Procs == {1, 2}
Other(p) == 3 - p

ChartCalls ==
    [cmd : {"save_chart_state"}, id : {Id_evil, Id_evil_b}, data : ChartStates]
NotesCalls ==
    {[cmd |-> "save_sticky_notes", id |-> <<>>, data |-> to_string_pretty(ns)] :
        ns \in {<<>>, <<Note2>>}}

\* lines 61 and 77: the directory the call writes into
CallRoot(c) ==
    Append(get_db_path(NoFault).path,
           IF c.cmd = "save_chart_state" THEN Drawings ELSE StickyNotes)

\* lines 68-69 and 83: the path the call writes
CallPath(c) ==
    Join(CallRoot(c),
         IF c.cmd = "save_chart_state" THEN Sanitize(c.id) \o DotJson
         ELSE StickyNotesJson)

NewCall(c) == [cmd |-> c.cmd, id |-> c.id, data |-> c.data, pc |-> "check",
               off |-> 0, ok |-> FALSE]

InitConc ==
    /\ dirs = {<<>>}
    /\ files = (CsvFile :> CsvText)
    /\ ret = [cmd |-> "none", ok |-> TRUE, val |-> <<>>]
    /\ eff = NoEff
    /\ chartHist = [clean |-> TRUE, log |-> <<>>]
    /\ notesHist = [state |-> "none", notes |-> <<>>]
    /\ san = NoSan
    /\ \E a, b \in ChartCalls \cup NotesCalls :
           /\ CallPath(a) = CallPath(b)
           /\ calls = <<NewCall(a), NewCall(b)>>
    /\ order = [returned |-> <<>>, mixed |-> FALSE, lastOpen |-> 0]
    /\ nops = 0

ConcFrame == UNCHANGED <<ret, eff, chartHist, notesHist, san, nops>>

\* lines 63 and 79: if !root.exists()
CheckDir(p) ==
    /\ calls[p].pc = "check"
    /\ calls' = [calls EXCEPT ![p].pc =
                    IF Exists(dirs, files, CallRoot(calls[p])) THEN "open"
                    ELSE "mkdir"]
    /\ UNCHANGED <<dirs, files, order>>
    /\ ConcFrame

\* lines 64 and 80: fs::create_dir_all, which takes a directory that is
\* there by now for created
MakeDir(p) ==
    /\ calls[p].pc = "mkdir"
    /\ dirs' = dirs \cup Prefixes(CallRoot(calls[p]))
    /\ calls' = [calls EXCEPT ![p].pc = "open"]
    /\ UNCHANGED <<files, order>>
    /\ ConcFrame

\* the other call has opened the file and has not written all its data
MidWrite(q) == calls[q].pc = "write" /\ calls[q].off < Len(calls[q].data)

\* lines 71 and 86, fs::write: File::create
OpenFile(p) ==
    /\ calls[p].pc = "open"
    /\ files' = Create(files, CallPath(calls[p]))
    /\ calls' = [calls EXCEPT ![p].pc = "write", ![p].off = 0]
    /\ order' = [order EXCEPT !.lastOpen = p,
                              !.mixed = order.mixed \/ MidWrite(Other(p))]
    /\ UNCHANGED dirs
    /\ ConcFrame

\* lines 71 and 86, fs::write: one write(2) of write_all's loop
WriteSome(p) ==
    /\ calls[p].pc = "write"
    /\ LET left == Len(calls[p].data) - calls[p].off
       IN  /\ left > 0
           /\ \E n \in {left} \cup {k \in 1..MaxShortWrite : k < left} :
                  /\ files' = WriteAt(files, CallPath(calls[p]), calls[p].off,
                                      SubSeq(calls[p].data, calls[p].off + 1,
                                             calls[p].off + n))
                  /\ calls' = [calls EXCEPT ![p].off = calls[p].off + n]
    /\ UNCHANGED <<dirs, order>>
    /\ ConcFrame

\* lines 71 and 86: write_all is through and the call returns Ok(())
Return(p) ==
    /\ calls[p].pc = "write"
    /\ calls[p].off = Len(calls[p].data)
    /\ calls' = [calls EXCEPT ![p].pc = "done", ![p].ok = TRUE]
    /\ order' = [order EXCEPT !.returned = Append(order.returned, p)]
    /\ UNCHANGED <<dirs, files>>
    /\ ConcFrame

NextConc ==
    \E p \in Procs :
        CheckDir(p) \/ MakeDir(p) \/ OpenFile(p) \/ WriteSome(p) \/ Return(p)

SpecConc == InitConc /\ [][NextConc]_vars

----------------------------------------------------------------------------
(* The claims *)

SafeChars == Letters \cup Digits \cup {"_", "-"}

Ran(cmd) == ret.cmd = cmd
RanNow(cmd) == ret'.cmd = cmd /\ nops' = nops + 1

InDir(d, fl) == {p \in DOMAIN fl : Parent(p) = d}
Changed(p) ==
    \/ (p \in DOMAIN files) # (p \in DOMAIN files')
    \/ p \in DOMAIN files /\ p \in DOMAIN files' /\ files[p] # files'[p]
ChangedFiles == {p \in DOMAIN files \cup DOMAIN files' : Changed(p)}

\* C1 as claimed: a successful save_chart_state writes exactly one file,
\* whose parent is the Drawings directory, changes no file elsewhere and
\* creates no directory other than Drawings.
C1_NothingOutsideDrawings ==
    [][(RanNow("save_chart_state") /\ ret'.ok) =>
          /\ Cardinality(eff'.written) = 1
          /\ \A p \in eff'.written \cup ChangedFiles : Parent(p) = DrawingsDir
          /\ dirs \subseteq dirs'
          /\ dirs' \ dirs \subseteq {DrawingsDir}]_vars

\* C1 as amended: a successful save_chart_state writes exactly one file,
\* whose parent is the Drawings directory, and changes no file elsewhere;
\* the only directories it creates are Drawings and the ancestors of
\* Drawings that were missing, and it removes none.
C1_OneFileInDrawings ==
    [][(RanNow("save_chart_state") /\ ret'.ok) =>
          /\ Cardinality(eff'.written) = 1
          /\ \A p \in eff'.written \cup ChangedFiles : Parent(p) = DrawingsDir
          /\ dirs \subseteq dirs'
          /\ dirs' \ dirs \subseteq Prefixes(DrawingsDir)]_vars

C1_Witness ==
    /\ Ran("save_chart_state") /\ ret.ok
    /\ chartHist.clean /\ chartHist.log # <<>>
    /\ chartHist.log[Len(chartHist.log)][1] = Id_evil
    /\ eff.written =
           {Append(DrawingsDir, <<"_","_","_","_","_","_","e","v","i","l">> \o DotJson)}

\* C2: the sanitizer's output has the length of its input, keeps every
\* alphanumeric character, '_' and '-' where it is, and has '_' in the place
\* of every other character.
C2_CharByChar ==
    san.n >= 1 =>
        /\ Len(san.once) = Len(san.in)
        /\ \A i \in 1..Len(san.in) :
               san.once[i] = (IF san.in[i] \in SafeChars THEN san.in[i] ELSE "_")
        /\ \A i \in 1..Len(san.once) : san.once[i] \in SafeChars

C2_Witness == san.n >= 1 /\ san.in = <<"a", "/">> /\ san.once = <<"a", "_">>

\* C3: sanitizing the sanitizer's output changes nothing, and neither does
\* sanitizing a string of alphanumeric characters, '_' and '-'.
C3_Idempotent ==
    /\ san.n = 2 => san.twice = san.once
    /\ (san.n >= 1 /\ \A i \in 1..Len(san.in) : san.in[i] \in SafeChars)
           => san.once = san.in

C3_Witness == san.n = 2 /\ san.in = <<"/", ".">> /\ san.twice = <<"_", "_">>

\* C4 as claimed: "../../etc/passwd" becomes ".._.._etc_passwd".
C4_DotsKept ==
    (san.n >= 1 /\ san.in = Id_etc) =>
        san.once = <<".",".","_",".",".","_","e","t","c","_","p","a","s","s","w","d">>

\* C4 as amended: "../../etc/passwd" becomes "______etc_passwd": the
\* separators and the dots are all replaced by '_'.
C4_DotsReplaced ==
    (san.n >= 1 /\ san.in = Id_etc) =>
        san.once = <<"_","_","_","_","_","_","e","t","c","_","p","a","s","s","w","d">>

C4_Witness == san.n = 1 /\ san.in = Id_etc

\* C5: once a save_sticky_notes has succeeded and no later one has failed,
\* a load_sticky_notes that returns a sequence returns the argument of the
\* most recent save, and it does return one unless the environment fails it.
C5_RoundTrip ==
    (Ran("load_sticky_notes") /\ notesHist.state = "saved") =>
        /\ eff.fault = "none" => ret.ok
        /\ ret.ok => ret.val = notesHist.notes

C5_Witness ==
    /\ Ran("load_sticky_notes") /\ ret.ok /\ notesHist.state = "saved"
    /\ ret.val = <<Note2, Note1>>

\* C6: when the data root resolves and sticky_notes.json does not exist,
\* load_sticky_notes succeeds with the empty sequence and leaves the file
\* tree as it was.
C6_NoFileYet ==
    [][(RanNow("load_sticky_notes") /\ eff'.fault # "resolve"
            /\ StickyFile \notin DOMAIN files) =>
          /\ ret'.ok
          /\ ret'.val = <<>>
          /\ files' = files /\ dirs' = dirs]_vars

C6_Witness ==
    /\ Ran("load_sticky_notes") /\ ret.ok /\ ret.val = <<>>
    /\ StickyFile \notin DOMAIN files /\ StickyDir \in dirs

\* the file a logged save wrote
ChartFile(source_id) == Append(DrawingsDir, Sanitize(source_id) \o DotJson)

\* C7: while every save_chart_state so far has succeeded, the Drawings
\* directory holds exactly one file per sanitized source_id saved, named
\* <sanitized_id>.json, and each file's content is the state of the most
\* recent save whose source_id sanitizes to that name.
C7_LastSaveWins ==
    chartHist.clean =>
        LET log == chartHist.log
        IN  /\ InDir(DrawingsDir, files) = {ChartFile(log[i][1]) : i \in 1..Len(log)}
            /\ \A i \in 1..Len(log) :
                   (\A j \in (i + 1)..Len(log) :
                        ChartFile(log[j][1]) # ChartFile(log[i][1]))
                       => files[ChartFile(log[i][1])] = log[i][2]

C7_Witness ==
    /\ chartHist.clean /\ Len(chartHist.log) = 3
    /\ \E i, j \in 1..3 :
           /\ i < j
           /\ chartHist.log[i][1] # chartHist.log[j][1]
           /\ ChartFile(chartHist.log[i][1]) = ChartFile(chartHist.log[j][1])
           /\ chartHist.log[i][2] # chartHist.log[j][2]
    /\ Cardinality(InDir(DrawingsDir, files)) = 2

SaveCmds == {"save_chart_state", "save_sticky_notes"}
TargetDir == IF Ran("save_chart_state") THEN DrawingsDir ELSE StickyDir

\* C9: a save that fails returns an error string; when the data root does not
\* resolve or create_dir_all fails no write has been attempted; when the
\* write fails, it was attempted once, and the target directory, also when
\* this call created it, is still there.
C9_NoRollbackNoRetry ==
    ret.cmd \in SaveCmds =>
        /\ eff.writes <= 1
        /\ eff.created \subseteq dirs
        /\ ~ret.ok =>
              /\ ret.val \in {"path error", "create_dir_all error", "write error"}
              /\ ret.val \in {"path error", "create_dir_all error"}
                     => eff.writes = 0 /\ eff.written = {}
              /\ ret.val = "write error" => eff.writes = 1 /\ TargetDir \in dirs
        /\ eff.fault = "resolve" => ~ret.ok /\ ret.val = "path error"

C9_Witness ==
    /\ Ran("save_chart_state") /\ ~ret.ok /\ ret.val = "write error"
    /\ DrawingsDir \in eff.created /\ DrawingsDir \in dirs

\* what load_sticky_notes returns from a file tree
LoadOf(ds, fl) == load_sticky_notes(ds, fl, NoFault)
SameResult(a, b) == a.ok = b.ok /\ a.val = b.val

\* C10: save_chart_state leaves sticky_notes.json and what load_sticky_notes
\* returns as they were, save_sticky_notes leaves every file of Drawings as
\* it was, ping, read_csv and load_sticky_notes leave the whole file tree as
\* it was, and ping returns "pong".
C10_Frame ==
    [][/\ RanNow("save_chart_state") =>
             /\ \A p \in ChangedFiles : Parent(p) # StickyDir
             /\ \/ files' = files /\ dirs' = dirs
                \/ SameResult(LoadOf(dirs', files'), LoadOf(dirs, files))
       /\ RanNow("save_sticky_notes") =>
             \A p \in ChangedFiles : Parent(p) # DrawingsDir
       /\ (RanNow("ping") \/ RanNow("read_csv") \/ RanNow("load_sticky_notes")) =>
             files' = files /\ dirs' = dirs
       /\ RanNow("ping") => ret'.ok /\ ret'.val = "pong"]_vars

C10_Witness ==
    /\ Ran("save_chart_state") /\ ret.ok
    /\ notesHist.state = "saved" /\ StickyFile \in DOMAIN files
    /\ files[StickyFile] = to_string_pretty(notesHist.notes)

BothDone == calls # <<>> /\ \A p \in Procs : calls[p].pc = "done"
ConcFile == files[CallPath(calls[1])]

\* C8 as claimed: both calls return success, and once both have returned the
\* file holds the complete value of the call that returned last.
C8_LastReturnWins ==
    BothDone =>
        /\ \A p \in Procs : calls[p].ok
        /\ ConcFile = calls[order.returned[2]].data

\* C8 as amended: both calls return success, and once both have returned the
\* file holds the complete value of the call that opened the file last
\* (either call, and not always the one that returned last), provided
\* neither call opened the file while the other had opened it and not yet
\* written all its data; otherwise the file may hold a mixture of the two.
C8_LastOpenWins ==
    BothDone =>
        /\ \A p \in Procs : calls[p].ok
        /\ CallPath(calls[1]) \in DOMAIN files
        /\ ~order.mixed => ConcFile = calls[order.lastOpen].data

C8_Witness ==
    /\ BothDone /\ ~order.mixed
    /\ order.lastOpen = 1 /\ order.returned = <<1, 2>>
    /\ calls[1].data # calls[2].data
    /\ ConcFile = calls[1].data

=============================================================================
